---- MODULE Spec2Model ----
(***************************************************************************)
(* A model of rig-google-sheets (src/src/main.rs): the session loop of     *)
(* main, take_input, the tool catalog built from list_tools, and the       *)
(* tool-calling loop call_until_response.  The completion backend, the     *)
(* MCP tool server and stdin are the environment: their answers are drawn  *)
(* from small sets.  The driver suspends only at its two awaits, so one    *)
(* action runs from one await (or from the read of a line) to the next.    *)
(***************************************************************************)
EXTENDS Naturals, Sequences, FiniteSets, TLC

VARIABLES
    pc,            \* control point of main / call_until_response
    chat_history,  \* main's chat_history: Vec<Message>
    prompt,        \* call_until_response's local `prompt` (the pending message)
    resp,          \* the loop-local `resp.choice` of this iteration, <<>> before it
    tool_call,     \* the loop-local `tool_call` matched out of resp
    ret,           \* what call_until_response returned to main
    toolset,       \* names registered in the ToolSet
    tooldefs,      \* Vec<ToolDefinition> built at startup
    listed,        \* the tools list_tools answered with
    inflight,      \* the calls sent to a collaborator and not yet answered
    stdout,        \* the last line printed
    entered,       \* the line the user entered for the current read
    request,       \* the completion request built by the current iteration
    lastTool,      \* the last Tool Invoker exchange of the current turn
    turn,          \* per-turn counters of the observable events
    nCompletions   \* completion calls made in the session

vars == <<pc, chat_history, prompt, resp, tool_call, ret, toolset, tooldefs,
          listed, inflight, stdout, entered, request, lastTool, turn,
          nCompletions>>

\* The session makes at most this many completion calls.
MaxCompletions == 4

None == [kind |-> "None"]

(***************************************************************************)
(* Strings and JSON                                                        *)
(***************************************************************************)

\* serde_json::Value::to_string of an object with string members, given as
\* its sequence of <<key, value>> pairs: compact JSON text.
RECURSIVE JsonMembers(_)
JsonMembers(v) ==
    IF v = <<>> THEN ""
    ELSE "\"" \o v[1][1] \o "\":\"" \o v[1][2] \o "\""
         \o (IF Len(v) > 1 THEN "," ELSE "") \o JsonMembers(Tail(v))

ValueToString(v) == "{" \o JsonMembers(v) \o "}"

(***************************************************************************)
(* Messages                                                                *)
(***************************************************************************)

\* prompt.into(): a String becomes a user message with one text item.
UserText(s) == [role |-> "User", kind |-> "Text", text |-> s]

\* Message::assistant(&text)
AssistantText(t) == [role |-> "Assistant", kind |-> "Text", text |-> t]

\* Message::Assistant { content: OneOrMany::one(AssistantContent::ToolCall(tc)) }
AssistantToolCall(tc) ==
    [role |-> "Assistant", kind |-> "ToolCall", id |-> tc.id,
     name |-> tc.name, arguments |-> tc.arguments]

\* Message::User { content: OneOrMany::one(UserContent::ToolResult(..Text..)) }
UserToolResult(id, text) ==
    [role |-> "User", kind |-> "ToolResult", id |-> id, text |-> text]

(***************************************************************************)
(* The environment's answers                                               *)
(***************************************************************************)

\* What the user types before ending the line.
TypedLines == {"quit", "List leads named Bob"}

\* How the line ends: Enter (read_line keeps the newline), or end of input.
LineEnds == {"\n", ""}

\* The tools list_tools may answer with: {name, description?, input_schema}.
McpListRows ==
    [name |-> "list_rows", description |-> [some |-> TRUE, v |-> "List rows"],
     input_schema |-> "{\"filter\":\"string\"}"]

McpAddSheet ==
    [name |-> "add_sheet", description |-> [some |-> FALSE],
     input_schema |-> "{}"]

ToolsListResponses == {<<McpListRows>>, <<McpListRows, McpAddSheet>>}

\* Content items a completion response may carry.
TextItem(t) == [kind |-> "Text", text |-> t]

ToolCallItem(id, name, args) ==
    [kind |-> "ToolCall", id |-> id, name |-> name, arguments |-> args]

CallListRows == ToolCallItem("1", "list_rows", <<<<"filter", "Bob">>>>)

CallAddSheet == ToolCallItem("2", "add_sheet", <<>>)

AnswerItem == TextItem("Found 1 matching lead: Bob.")

FirstItems == {AnswerItem, CallListRows, CallAddSheet}

\* Items a response may carry after its first one.
CallSecond == ToolCallItem("3", "list_rows", <<<<"filter", "Alice">>>>)

NoteItem == TextItem("Let me look that up.")

RestItems == {CallSecond, NoteItem}

\* resp.choice is a OneOrMany: one item, or one item and more after it.
Choices ==
    {<<i>> : i \in FirstItems}
       \cup {<<i, j>> : i \in FirstItems, j \in RestItems}

\* Failures of model.completion (CompletionError's Display text).
CompletionErrors == {"ProviderError: rate limited"}

\* What a listed tool may answer.
ToolTexts == {"[{\"name\":\"Bob\"}]"}

ToolFailures == {"server error"}

(***************************************************************************)
(* The pure parts of the program                                           *)
(***************************************************************************)

\* stdin().read_line(&mut str): appends the line, its newline included.
ReadLine(buf, typed, end) == buf \o typed \o end

\* take_input: a fresh String filled by one read_line, returned as it is.
take_input(typed, end) == ReadLine("", typed, end)

\* main's test `prompt == *"quit"`.
IsQuit(p) == p = "quit"

\* Mutant: a tool without a description is described by its name.
ToolDefinitionNamesNone(tool) ==
    [name |-> tool.name,
     description |->
        IF tool.description.some THEN tool.description.v ELSE tool.name,
     parameters |-> tool.input_schema]

\* The ToolDefinition pushed for one listed tool.
ToolDefinition(tool) ==
    [name |-> tool.name,
     description |-> IF tool.description.some THEN tool.description.v ELSE "",
     parameters |-> tool.input_schema]

\* get_tools_from_mcp_tool_response: the fold over tools_list_res.tools.
RECURSIVE FoldTools(_, _)
FoldTools(acc, tools) ==
    IF tools = <<>> THEN acc
    ELSE FoldTools([tools |-> acc.tools \cup {tools[1].name},
                    tooldefs |-> Append(acc.tooldefs, ToolDefinition(tools[1]))],
                   Tail(tools))

get_tools_from_mcp_tool_response(tools_list_res) ==
    FoldTools([tools |-> {}, tooldefs |-> <<>>], tools_list_res)

\* Mutant: the pending message is put into the history as well.
BuildRequestWithPending(pr, hist, defs) ==
    [preamble |-> "PREAMBLE", chat_history |-> Append(hist, pr), prompt |-> pr,
     temperature |-> 0, max_tokens |-> 1024, tools |-> defs]

\* CompletionRequestBuilder::new(model, prompt).preamble(..).messages(..)...build()
BuildRequest(pr, hist, defs) ==
    [preamble |-> "PREAMBLE", chat_history |-> hist, prompt |-> pr,
     temperature |-> 0, max_tokens |-> 1024, tools |-> defs]

\* Mutant: the item matched is the last of the response.
FirstTakesLast(choice) == choice[Len(choice)]

\* resp.choice.first()
First(choice) == choice[1]

Ok(v) == [kind |-> "Ok", v |-> v]

Err(e) == [kind |-> "Err", e |-> e]

\* ToolSetError's Display, as e.to_string() gives it.
ErrToString(e) == e.kind \o ": " \o e.msg

\* toolset.call(name, args): an unregistered name is an error; a registered
\* tool answers with a text or fails.
ToolOutcomes(names, name, args) ==
    IF name \notin names
    THEN {Err([kind |-> "ToolNotFoundError", msg |-> name])}
    ELSE {Ok(t) : t \in ToolTexts}
         \cup {Err([kind |-> "ToolCallError", msg |-> f]) : f \in ToolFailures}

\* The two calls the driver sends.
CompletionCall(req) == [to |-> "completion", request |-> req]

ToolsetCall(tc) ==
    [to |-> "tool", name |-> tc.name, args |-> ValueToString(tc.arguments)]

\* A call is outstanding from the moment it is sent ...
Issue(calls, call) == calls \cup {call}

\* Mutant: the call is left running and the code goes on without awaiting it.
AwaitDetached(calls, call) == calls

\* ... until its `.await` yields the answer.
Await(calls, call) == calls \ {call}

(***************************************************************************)
(* call_until_response: what each arm does to (chat_history, prompt) and   *)
(* whether it returns.  pc "loop_top" is the head of the loop, "returned"  *)
(* is the return to main.                                                  *)
(***************************************************************************)

\* Mutant: the pending message is pushed before the error is propagated.
OnCompletionErrPushes(hist, pr, x) ==
    [pc |-> "returned", chat_history |-> Append(hist, pr), prompt |-> None,
     ret |-> Err("Error when prompting: " \o x)]

\* .map_err(|x| anyhow!("Error when prompting: {x}"))?
OnCompletionErr(hist, pr, x) ==
    [pc |-> "returned", chat_history |-> hist, prompt |-> None,
     ret |-> Err("Error when prompting: " \o x)]

\* Mutant: the answer is pushed without the pending message before it.
OnTextDropsPrompt(hist, pr, item) ==
    [pc |-> "returned",
     chat_history |-> Append(hist, AssistantText(item.text)),
     prompt |-> None, ret |-> Ok(item.text)]

\* Mutant: the history is cut down to the last exchange when the turn ends.
OnTextKeepsLast(hist, pr, item) ==
    [pc |-> "returned",
     chat_history |-> <<pr, AssistantText(item.text)>>,
     prompt |-> None, ret |-> Ok(item.text)]

\* AssistantContent::Text(text) => push, push, return Ok(text)
OnText(hist, pr, item) ==
    [pc |-> "returned",
     chat_history |-> Append(Append(hist, pr), AssistantText(item.text)),
     prompt |-> None, ret |-> Ok(item.text)]

\* Mutant: the tool's error is propagated with `?` like the completion's.
OnToolErrAborts(hist, pr, tc, e) ==
    [pc |-> "returned", chat_history |-> hist, prompt |-> None,
     ret |-> Err(ErrToString(e))]

\* Mutant: the model is told of a failure, without the error's text.
OnToolErrFixedText(hist, pr, tc, e) ==
    [pc |-> "loop_top",
     chat_history |-> Append(Append(hist, pr), AssistantToolCall(tc)),
     prompt |-> UserToolResult(tc.id, "tool call failed"), ret |-> None]

\* Mutant: the failure arm sets the next prompt but pushes nothing.
OnToolErrDropsPair(hist, pr, tc, e) ==
    [pc |-> "loop_top", chat_history |-> hist,
     prompt |-> UserToolResult(tc.id, ErrToString(e)), ret |-> None]

\* Mutant: the failure arm pushes the tool call without the pending message.
OnToolErrDropsPrompt(hist, pr, tc, e) ==
    [pc |-> "loop_top", chat_history |-> Append(hist, AssistantToolCall(tc)),
     prompt |-> UserToolResult(tc.id, ErrToString(e)), ret |-> None]

\* Err(e) => push, push, prompt = tool result carrying e.to_string(), continue
OnToolErr(hist, pr, tc, e) ==
    [pc |-> "loop_top",
     chat_history |-> Append(Append(hist, pr), AssistantToolCall(tc)),
     prompt |-> UserToolResult(tc.id, ErrToString(e)), ret |-> None]

\* Mutant: the tool call is pushed without the pending message before it.
OnToolOkDropsPrompt(hist, pr, tc, res) ==
    [pc |-> "loop_top",
     chat_history |-> Append(hist, AssistantToolCall(tc)),
     prompt |-> UserToolResult(tc.id, res), ret |-> None]

\* Mutant: the tool's result is returned as the answer.
OnToolOkReturns(hist, pr, tc, res) ==
    [pc |-> "returned",
     chat_history |-> Append(Append(hist, pr), AssistantToolCall(tc)),
     prompt |-> None, ret |-> Ok(res)]

\* Mutant: the loop gives up after two round-trips on one chat_history.
OnToolOkCapped(hist, pr, tc, res) ==
    IF Len(hist) >= 2
    THEN [pc |-> "returned", chat_history |-> hist, prompt |-> None,
          ret |-> Err("ToolLoopExceeded")]
    ELSE [pc |-> "loop_top",
          chat_history |-> Append(Append(hist, pr), AssistantToolCall(tc)),
          prompt |-> UserToolResult(tc.id, res), ret |-> None]

\* Mutant: the tool result is pushed at once, and again as the pending
\* message of the next iteration.
OnToolOkPushesResult(hist, pr, tc, res) ==
    [pc |-> "loop_top",
     chat_history |-> Append(Append(Append(hist, pr), AssistantToolCall(tc)),
                             UserToolResult(tc.id, res)),
     prompt |-> UserToolResult(tc.id, res), ret |-> None]

\* Ok(res) => push, push, prompt = tool result carrying res
OnToolOk(hist, pr, tc, res) ==
    [pc |-> "loop_top",
     chat_history |-> Append(Append(hist, pr), AssistantToolCall(tc)),
     prompt |-> UserToolResult(tc.id, res), ret |-> None]

\* Mutant: main reports the error and goes on to the next line.
MainUnwrapContinues(r) == "take_input"

\* main's `.await.unwrap()` on the driver's result: an Err panics.
MainUnwrap(r) == IF r.kind = "Ok" THEN "take_input" ELSE "panicked"

(***************************************************************************)
(* The state machine                                                       *)
(***************************************************************************)

NewTurn(base) ==
    [base |-> base, sent |-> 0, answered |-> 0, invoked |-> 0,
     okTrips |-> 0, errTrips |-> 0]

Init ==
    /\ pc = "connect"
    /\ chat_history = <<>>
    /\ prompt = None
    /\ resp = <<>>
    /\ tool_call = None
    /\ ret = None
    /\ toolset = {}
    /\ tooldefs = <<>>
    /\ listed = <<>>
    /\ inflight = {}
    /\ stdout = ""
    /\ entered = None
    /\ request = None
    /\ lastTool = None
    /\ turn = NewTurn(0)
    /\ nCompletions = 0

\* connect_to_gsheets_mcp().await?: open and initialize succeed, or one of
\* them fails and main returns the error.
Connect ==
    /\ pc = "connect"
    /\ \/ pc' = "list_tools" /\ stdout' = "Successfully opened."
       \/ pc' = "exit_err" /\ stdout' = "Loading GSheets MCP server..."
    /\ UNCHANGED <<chat_history, prompt, resp, tool_call, ret, toolset, tooldefs, listed,
                   inflight, entered, request, lastTool, turn, nCompletions>>

\* list_tools(None, None).await? fails: main returns the error.
ListToolsFails ==
    /\ pc = "list_tools"
    /\ pc' = "exit_err"
    /\ UNCHANGED <<chat_history, prompt, resp, tool_call, ret, toolset, tooldefs, listed,
                   inflight, stdout, entered, request, lastTool, turn,
                   nCompletions>>

\* list_tools answers; the catalog is built, the greeting printed and the
\* empty chat_history created.
ListTools ==
    /\ pc = "list_tools"
    /\ \E r \in ToolsListResponses :
          LET built == get_tools_from_mcp_tool_response(r)
          IN  /\ toolset' = built.tools
              /\ tooldefs' = built.tooldefs
              /\ listed' = r
    /\ stdout' = "------------"
    /\ chat_history' = <<>>
    /\ pc' = "take_input"
    /\ UNCHANGED <<prompt, resp, tool_call, ret, inflight, entered, request,
                   lastTool, turn, nCompletions>>

\* One pass of main's loop up to the call of call_until_response: read a
\* line, print the separator, leave on "quit", else hand the line over.
TakeInput ==
    /\ pc = "take_input"
    /\ \E typed \in TypedLines, end \in LineEnds :
          LET p == take_input(typed, end)
          IN  /\ entered' = [typed |-> typed, end |-> end]
              /\ IF IsQuit(p)
                 THEN /\ stdout' = "Thanks for using me! I am quitting now."
                      /\ pc' = "exit_ok"
                      /\ prompt' = None
                 ELSE /\ stdout' = "------------"
                      /\ pc' = "loop_top"
                      /\ prompt' = UserText(p)
    /\ ret' = None
    /\ resp' = <<>>
    /\ tool_call' = None
    /\ request' = None
    /\ lastTool' = None
    /\ turn' = NewTurn(Len(chat_history))
    /\ UNCHANGED <<chat_history, toolset, tooldefs, listed, inflight, nCompletions>>

\* The head of the loop: build the request and send it to the model.
SendCompletion ==
    /\ pc = "loop_top"
    /\ nCompletions < MaxCompletions
    /\ LET req == BuildRequest(prompt, chat_history, tooldefs)
       IN  /\ request' = req
           /\ inflight' = Issue(inflight, CompletionCall(req))
    /\ resp' = <<>>
    /\ tool_call' = None
    /\ pc' = "await_completion"
    /\ nCompletions' = nCompletions + 1
    /\ turn' = [turn EXCEPT !.sent = @ + 1]
    /\ UNCHANGED <<chat_history, prompt, ret, toolset, tooldefs, listed, stdout, entered,
                   lastTool>>

\* Apply an arm's result to the driver's variables.
Become(next) ==
    /\ pc' = next.pc
    /\ chat_history' = next.chat_history
    /\ prompt' = next.prompt
    /\ ret' = next.ret

\* model.completion(request).await fails.
CompletionFails ==
    /\ pc = "await_completion"
    /\ \E x \in CompletionErrors :
          Become(OnCompletionErr(chat_history, prompt, x))
    /\ inflight' = Await(inflight, CompletionCall(request))
    /\ UNCHANGED <<resp, tool_call, toolset, tooldefs, listed, stdout, entered, request,
                   lastTool, turn, nCompletions>>

\* The model answers and the first item is a text.
CompletionText ==
    /\ pc = "await_completion"
    /\ \E choice \in Choices :
          /\ First(choice).kind = "Text"
          /\ resp' = choice
          /\ Become(OnText(chat_history, prompt, First(choice)))
    /\ inflight' = Await(inflight, CompletionCall(request))
    /\ turn' = [turn EXCEPT !.answered = @ + 1]
    /\ UNCHANGED <<tool_call, toolset, tooldefs, listed, stdout, entered, request,
                   lastTool, nCompletions>>

\* The model answers and the first item is a tool call: call the tool.
CompletionToolCall ==
    /\ pc = "await_completion"
    /\ \E choice \in Choices :
          /\ First(choice).kind = "ToolCall"
          /\ resp' = choice
          /\ tool_call' = First(choice)
          /\ inflight' = Issue(Await(inflight, CompletionCall(request)),
                               ToolsetCall(First(choice)))
    /\ pc' = "await_tool"
    /\ turn' = [turn EXCEPT !.answered = @ + 1, !.invoked = @ + 1]
    /\ UNCHANGED <<chat_history, prompt, ret, toolset, tooldefs, listed, stdout, entered,
                   request, lastTool, nCompletions>>

\* toolset.call(..).await yields Ok(res).
ToolSucceeds ==
    /\ pc = "await_tool"
    /\ \E c \in {d \in inflight : d.to = "tool"} :
       \E o \in ToolOutcomes(toolset, c.name, c.args) :
          /\ o.kind = "Ok"
          /\ Become(OnToolOk(chat_history, prompt, tool_call, o.v))
          /\ lastTool' = [call |-> tool_call, invoked |-> c, outcome |-> o]
          /\ inflight' = Await(inflight, c)
    /\ turn' = [turn EXCEPT !.okTrips = @ + 1]
    /\ UNCHANGED <<resp, tool_call, toolset, tooldefs, listed, stdout, entered, request,
                   nCompletions>>

\* toolset.call(..).await yields Err(e).
ToolFails ==
    /\ pc = "await_tool"
    /\ \E c \in {d \in inflight : d.to = "tool"} :
       \E o \in ToolOutcomes(toolset, c.name, c.args) :
          /\ o.kind = "Err"
          /\ Become(OnToolErr(chat_history, prompt, tool_call, o.e))
          /\ lastTool' = [call |-> tool_call, invoked |-> c, outcome |-> o]
          /\ inflight' = Await(inflight, c)
    /\ turn' = [turn EXCEPT !.errTrips = @ + 1]
    /\ UNCHANGED <<resp, tool_call, toolset, tooldefs, listed, stdout, entered, request,
                   nCompletions>>

\* Back in main: unwrap the result; print the answer and loop, or panic.
MainResult ==
    /\ pc = "returned"
    /\ pc' = MainUnwrap(ret)
    /\ stdout' = IF pc' = "take_input" THEN "------------" ELSE stdout
    /\ UNCHANGED <<chat_history, prompt, resp, tool_call, ret, toolset, tooldefs, listed,
                   inflight, entered, request, lastTool, turn, nCompletions>>

Next ==
    \/ Connect
    \/ ListToolsFails
    \/ ListTools
    \/ TakeInput
    \/ SendCompletion
    \/ CompletionFails
    \/ CompletionText
    \/ CompletionToolCall
    \/ ToolSucceeds
    \/ ToolFails
    \/ MainResult

Spec == Init /\ [][Next]_vars

TypeOK ==
    /\ pc \in {"connect", "list_tools", "take_input", "loop_top",
               "await_completion", "await_tool", "returned", "exit_ok",
               "exit_err", "panicked"}
    /\ nCompletions <= MaxCompletions

(***************************************************************************)
(* Properties                                                              *)
(***************************************************************************)

\* The text a Tool Invoker outcome carries: the result, or the error's text.
OutcomeText(o) == IF o.kind = "Ok" THEN o.v ELSE o.e.kind \o ": " \o o.e.msg

ToolResultMessage(id, text) ==
    [role |-> "User", kind |-> "ToolResult", id |-> id, text |-> text]

\* C1: when the first item of the completion response is Text(t), the driver
\* returns exactly t, and chat_history is the history that iteration started
\* with followed by one pair: the pending message, then Assistant(Text(t)).
C1_TextEndsTurn ==
    (resp # <<>> /\ First(resp).kind = "Text") =>
        /\ pc \in {"returned", "take_input"}
        /\ ret = [kind |-> "Ok", v |-> First(resp).text]
        /\ chat_history =
              request.chat_history \o
                 <<request.prompt,
                   [role |-> "Assistant", kind |-> "Text",
                    text |-> First(resp).text]>>

\* The driver has just returned a text answer to a pending tool result.
C1_Witness ==
    /\ pc = "returned"
    /\ resp # <<>> /\ First(resp).kind = "Text"
    /\ request.prompt.kind = "ToolResult"
    /\ Len(chat_history) = 4

\* C2: when the first item of the response is ToolCall{id, name, args}, the
\* one call sent to the toolset carries that name and the JSON text of those
\* args; the text that call yields, result or error, is the text of the next
\* pending message, a ToolResult with the same id, and that message is the
\* new message of the next completion request.
C2_ToolCallForwarded ==
    /\ pc = "await_tool" =>
          /\ resp # <<>> /\ First(resp).kind = "ToolCall"
          /\ inflight = {[to |-> "tool", name |-> First(resp).name,
                          args |-> ValueToString(First(resp).arguments)]}
    /\ (pc = "loop_top" /\ lastTool # None) =>
          /\ lastTool.call = First(resp)
          /\ lastTool.invoked.name = First(resp).name
          /\ lastTool.invoked.args = ValueToString(First(resp).arguments)
          /\ prompt = ToolResultMessage(First(resp).id,
                                        OutcomeText(lastTool.outcome))
    /\ (pc = "await_completion" /\ lastTool # None) =>
          request.prompt = ToolResultMessage(lastTool.call.id,
                                             OutcomeText(lastTool.outcome))

\* A completion request is in flight whose new message is the error text of
\* a failed call of list_rows, keyed by the call's id.
C2_Witness ==
    /\ pc = "await_completion"
    /\ lastTool # None
    /\ lastTool.call = CallListRows
    /\ lastTool.outcome.kind = "Err"
    /\ request.prompt.text = "ToolCallError: server error"
    /\ request.prompt.id = "1"

\* Users and assistants take turns, a user first.
Alternates(h) ==
    \A i \in 1..Len(h) :
        h[i].role = IF i % 2 = 1 THEN "User" ELSE "Assistant"

\* Every tool call but a last one is followed at once by its result.
Answered(h) ==
    \A i \in 1..Len(h) :
        (h[i].kind = "ToolCall" /\ i < Len(h)) =>
            /\ h[i + 1].kind = "ToolResult"
            /\ h[i + 1].role = "User"
            /\ h[i + 1].id = h[i].id

\* C3: a turn started on an empty chat_history that made N successful tool
\* round-trips and no failed one, then got a text, leaves 2N + 2 messages,
\* alternating user/assistant, every ToolCall followed at once by the
\* ToolResult with its id.
C3_TranscriptShape ==
    (pc = "returned" /\ ret.kind = "Ok" /\ turn.base = 0 /\ turn.errTrips = 0)
       => /\ Len(chat_history) = 2 * turn.okTrips + 2
          /\ Alternates(chat_history)
          /\ Answered(chat_history)
          /\ chat_history[Len(chat_history)].kind = "Text"

\* The scenario of one round-trip: prompt, list_rows, its rows, the answer.
C3_Witness ==
    /\ pc = "returned" /\ ret.kind = "Ok"
    /\ turn.base = 0 /\ turn.errTrips = 0 /\ turn.okTrips = 1
    /\ Len(chat_history) = 4
    /\ ret.v = "Found 1 matching lead: Bob."
    /\ chat_history[2].kind = "ToolCall" /\ chat_history[3].kind = "ToolResult"

\* C4: when the completion call fails, at the first iteration or after
\* round-trips, the driver returns the error in that step, with no call
\* outstanding or made after the failed one, and chat_history is what the
\* failed request was built from.
C4_CompletionErrorIsFatal ==
    (ret.kind = "Err") =>
        /\ pc \in {"returned", "panicked"}
        /\ chat_history = request.chat_history
        /\ Len(chat_history) = turn.base + 2 * (turn.okTrips + turn.errTrips)
        /\ inflight = {}
        /\ turn.sent = turn.answered + 1
        /\ turn.invoked = turn.okTrips + turn.errTrips

\* The completion call failed after a tool round-trip of the turn.
C4_Witness ==
    /\ pc = "returned" /\ ret.kind = "Err"
    /\ turn.okTrips + turn.errTrips >= 1
    /\ Len(chat_history) = 2

\* C5: a failure of the tool call never returns from the driver: the step
\* that receives it leads to the head of the loop with the error's text as
\* the pending ToolResult, and the only step from the head of the loop sends
\* a completion request carrying that pending message.
C5_ToolErrorRecovers ==
    [][/\ (pc = "await_tool" /\ pc' # "await_tool"
              /\ lastTool'.outcome.kind = "Err") =>
           /\ pc' = "loop_top"
           /\ ret' = None
           /\ prompt' = ToolResultMessage(tool_call.id,
                                          OutcomeText(lastTool'.outcome))
       /\ (pc = "loop_top" /\ pc' # "loop_top") =>
           /\ pc' = "await_completion"
           /\ request'.prompt = prompt
           /\ inflight' = {[to |-> "completion", request |-> request']}]_vars

\* After two failed tool calls, one of them of a tool that is not
\* registered, the next completion request is in flight.
C5_Witness ==
    /\ pc = "await_completion"
    /\ turn.errTrips = 2
    /\ lastTool # None
    /\ lastTool.outcome.kind = "Err"
    /\ lastTool.outcome.e.kind = "ToolNotFoundError"
    /\ request.prompt.kind = "ToolResult"

C7_ReturnsOnlyOnText ==
    (pc = "returned") => (resp # <<>> /\ First(resp).kind = "Text")

\* C7, amended: the driver returns an answer only when the completion
\* response of the iteration has a Text as its first item, and that text is
\* the answer; its only other return is the error of the iteration's failed
\* completion call, for which there is no response.
C7_ReturnsOnTextOrError ==
    (pc = "returned") =>
        \/ /\ ret.kind = "Ok"
           /\ resp # <<>> /\ First(resp).kind = "Text"
           /\ ret.v = First(resp).text
        \/ /\ ret.kind = "Err"
           /\ resp = <<>>
           /\ turn.sent = turn.answered + 1

\* A return after a turn in which a tool call failed and another succeeded.
C7_Witness ==
    /\ pc = "returned"
    /\ turn.errTrips >= 1 /\ turn.okTrips >= 1
    /\ ret.kind = "Ok"

\* C8: once the user has entered the line quit (typed quit and pressed
\* Enter), the loop has ended with the farewell as the last line printed and
\* no completion or tool call was made for that line; any other line has
\* become the driver's first pending message.
C8_QuitEndsSession ==
    /\ (entered # None /\ entered.typed = "quit" /\ entered.end = "\n") =>
          /\ pc = "exit_ok"
          /\ stdout = "Thanks for using me! I am quitting now."
          /\ turn.sent = 0 /\ turn.invoked = 0
    /\ (entered # None /\ entered.typed # "quit") =>
          /\ pc # "exit_ok"
          /\ Len(chat_history) > turn.base =>
                /\ chat_history[turn.base + 1].kind = "Text"
                /\ chat_history[turn.base + 1].role = "User"

\* C9: at most one call is outstanding; a completion call is outstanding
\* exactly while the driver awaits it, a tool call exactly while the driver
\* awaits it, and the tool call outstanding is the one the completion
\* response of this iteration asked for.
C9_OneCallAtATime ==
    /\ Cardinality(inflight) <= 1
    /\ (pc = "await_completion") =>
          inflight = {[to |-> "completion", request |-> request]}
    /\ (pc = "await_tool") =>
          /\ resp # <<>> /\ First(resp).kind = "ToolCall"
          /\ \A c \in inflight :
                c.to = "tool" /\ c.name = First(resp).name
          /\ inflight # {}
    /\ (pc \notin {"await_completion", "await_tool"}) => inflight = {}

\* The second tool call of a turn is outstanding, alone.
C9_Witness ==
    /\ pc = "await_tool"
    /\ turn.invoked = 2
    /\ Cardinality(inflight) = 1

\* C11: a turn that failed with a CompletionError ends alone: main goes on
\* to read the next line; the session is ended by an error only during
\* setup, before any line was read.
C11_ErrorEndsOnlyTurn ==
    /\ (ret.kind = "Err") => pc \in {"returned", "take_input"}
    /\ (pc \in {"exit_err", "panicked"}) =>
          (entered = None /\ nCompletions = 0)

\* C12: the loop is left only by the step that receives a completion
\* response whose first item is Text, or the failure of the completion call,
\* and each of the two leaves it at once; whatever the number of round-trips
\* made, a tool answer leads back to the head of the loop and the head of the
\* loop to the next completion call: no step counts the round-trips.
C12_TurnEndsOnlyOnTextOrFailure ==
    [][/\ (pc \in {"loop_top", "await_completion", "await_tool"}
              /\ pc' \notin {"loop_top", "await_completion", "await_tool"}) =>
           /\ pc = "await_completion"
           /\ pc' = "returned"
           /\ \/ resp' # <<>> /\ First(resp').kind = "Text" /\ ret'.kind = "Ok"
              \/ resp' = <<>> /\ ret'.kind = "Err"
       /\ (pc = "await_completion" /\ pc' # pc
              /\ (resp' = <<>> \/ First(resp').kind = "Text")) =>
           pc' = "returned"
       /\ (pc = "await_completion" /\ pc' # pc
              /\ resp' # <<>> /\ First(resp').kind = "ToolCall") =>
           pc' = "await_tool"
       /\ (pc = "await_tool" /\ pc' # pc) =>
           /\ pc' = "loop_top"
           /\ turn'.okTrips + turn'.errTrips =
                 turn.okTrips + turn.errTrips + 1
       /\ (pc = "loop_top" /\ pc' # pc) => pc' = "await_completion"]_vars

\* A turn in which every completion call the session is allowed was answered
\* with a tool call, and which is still in the loop.
C12_Witness ==
    /\ pc = "loop_top"
    /\ turn.sent = MaxCompletions
    /\ turn.okTrips + turn.errTrips = MaxCompletions
    /\ ret = None

\* C13: the step that receives a tool failure with error text e changes
\* chat_history, the pending message, the control point and the result as
\* the success arm does for a tool that answers the text e: the pair
\* (pending message, Assistant(ToolCall)) is appended and the next pending
\* message is User(ToolResult{id, e}).
C13_FailureLikeSuccess ==
    [][(pc = "await_tool" /\ pc' # pc /\ lastTool'.outcome.kind = "Err") =>
          LET e == OutcomeText(lastTool'.outcome)
              ok == OnToolOk(chat_history, prompt, tool_call, e)
          IN  /\ chat_history' = ok.chat_history
              /\ prompt' = ok.prompt
              /\ pc' = ok.pc
              /\ ret' = ok.ret
              /\ chat_history' =
                    chat_history \o
                       <<prompt,
                         [role |-> "Assistant", kind |-> "ToolCall",
                          id |-> tool_call.id, name |-> tool_call.name,
                          arguments |-> tool_call.arguments]>>
              /\ prompt' = ToolResultMessage(tool_call.id, e)]_vars

\* list_rows has answered once and failed once in the same turn.
C13_Witness ==
    /\ pc = "loop_top"
    /\ lastTool # None
    /\ lastTool.outcome.kind = "Err"
    /\ lastTool.call = CallListRows
    /\ turn.okTrips >= 1
    /\ chat_history[Len(chat_history) - 2].kind = "ToolCall"

IsPrefix(a, b) == Len(a) <= Len(b) /\ SubSeq(b, 1, Len(a)) = a

\* C14: every step leaves the messages of chat_history in place (the old
\* chat_history is a prefix of the new one, so its length never decreases),
\* and only a step of call_until_response, taken where it awaits the model
\* or the tool, changes it.
C14_AppendOnly ==
    [][/\ IsPrefix(chat_history, chat_history')
       /\ (chat_history' # chat_history) =>
             /\ pc \in {"await_completion", "await_tool"}
             /\ Len(chat_history') = Len(chat_history) + 2]_vars

\* A later turn has appended to the messages an earlier turn left.
C14_Witness ==
    /\ pc = "returned"
    /\ turn.base >= 2
    /\ Len(chat_history) >= turn.base + 4

\* A message, call or answer made out of an item that came after the first.
FromRestItem(m) ==
    \/ m.kind \in {"ToolCall", "ToolResult"} /\ m.id = CallSecond.id
    \/ m.kind = "Text" /\ m.text = NoteItem.text

\* C15: the first item of a response alone decides the step: no more tool
\* calls are made in a turn than responses were received, the tool call
\* outstanding is the one of the first item, and the items after the first
\* are neither called, nor in chat_history, nor pending, nor the answer.
C15_OnlyFirstItem ==
    /\ turn.invoked <= turn.answered
    /\ (pc = "await_tool") =>
          inflight = {[to |-> "tool", name |-> resp[1].name,
                       args |-> ValueToString(resp[1].arguments)]}
    /\ \A c \in inflight :
          c.to = "tool" => c.args # ValueToString(CallSecond.arguments)
    /\ \A i \in 1..Len(chat_history) : ~FromRestItem(chat_history[i])
    /\ ~FromRestItem(prompt)
    /\ (lastTool # None) => lastTool.call.id # CallSecond.id
    /\ (ret.kind = "Ok") => ret.v # NoteItem.text
    /\ (resp # <<>> /\ resp[1].kind = "Text") =>
          (ret.kind = "Ok" /\ turn.invoked = turn.okTrips + turn.errTrips)

\* The response carried a text and then a tool call; the turn ended on the
\* text and no tool was called in it.
C15_Witness ==
    /\ pc = "returned"
    /\ Len(resp) = 2
    /\ resp[1].kind = "Text" /\ resp[2].kind = "ToolCall"
    /\ turn.invoked = 0
    /\ Len(chat_history) = 2

\* C16: the request awaited is built from the state of its iteration: its
\* history is chat_history, its new message the pending message, which is
\* not in that history (the history holds only the pairs of the turns and
\* iterations before); the pending message is appended, right after that
\* history, only once the call has succeeded and the step it asked for is
\* done.
C16_RequestIsFresh ==
    /\ (pc = "await_completion") =>
          /\ request.chat_history = chat_history
          /\ request.prompt = prompt
          /\ request.tools = tooldefs
          /\ Len(request.chat_history) = turn.base + 2 * (turn.sent - 1)
    /\ (pc = "await_tool") => chat_history = request.chat_history
    /\ ((pc = "loop_top" /\ turn.sent > 0) \/ (pc = "returned" /\ ret.kind = "Ok")) =>
          /\ Len(chat_history) = Len(request.chat_history) + 2
          /\ SubSeq(chat_history, 1, Len(request.chat_history)) =
                request.chat_history
          /\ chat_history[Len(chat_history) - 1] = request.prompt
          /\ chat_history[Len(chat_history)].role = "Assistant"

\* The second request of a later turn: it carries a tool result as the new
\* message and the first pair of the turn as the end of its history.
C16_Witness ==
    /\ pc = "await_completion"
    /\ turn.base >= 2
    /\ turn.sent = 2
    /\ request.prompt.kind = "ToolResult"
    /\ Len(request.chat_history) = turn.base + 2

\* C17: wherever the driver is suspended or has returned, in any turn of the
\* session and after any tool or completion failure, chat_history has an
\* even number of messages, a user message at every odd place and an
\* assistant message at every even one: no pair is ever seen half appended.
C17_PairsAreWhole ==
    /\ Len(chat_history) % 2 = 0
    /\ \A i \in 1..Len(chat_history) :
          /\ (i % 2 = 1) => chat_history[i].role = "User"
          /\ (i % 2 = 0) => chat_history[i].role = "Assistant"
    /\ (pc \in {"await_completion", "await_tool", "loop_top"}) =>
          prompt.role = "User"

\* Suspended on a tool call in a later turn, after a tool failure in it.
C17_Witness ==
    /\ pc = "await_tool"
    /\ turn.base >= 2
    /\ turn.errTrips >= 1
    /\ Len(chat_history) >= 4

\* The tool calls appended to h after its first `base` messages.
ToolCallsAppended(h, base) ==
    Cardinality({i \in (base + 1)..Len(h) : h[i].kind = "ToolCall"})

\* The response being served while its tool call is outstanding: its pair
\* is appended when the tool has answered.
Serving == IF pc = "await_tool" THEN 1 ELSE 0

\* C18: in a turn, the pairs appended are as many as the completion calls
\* that succeeded, and the Assistant(ToolCall) messages appended as many as
\* the tool calls made, at every return and wherever no tool call is
\* outstanding (while one is, the pair of the response being served is still
\* to come); the pending messages appended are never more than the requests
\* sent, and after a failed completion call its pending message is not there.
C18_AppendsMatchCalls ==
    /\ Len(chat_history) >= turn.base
    /\ Len(chat_history) - turn.base = 2 * (turn.answered - Serving)
    /\ ToolCallsAppended(chat_history, turn.base) = turn.invoked - Serving
    /\ turn.okTrips + turn.errTrips = turn.invoked - Serving
    /\ 2 * turn.sent >= Len(chat_history) - turn.base
    /\ (pc \in {"returned", "panicked"} \/ ret.kind # "None") =>
          /\ Len(chat_history) - turn.base = 2 * turn.answered
          /\ ToolCallsAppended(chat_history, turn.base) = turn.invoked
    /\ (ret.kind = "Err") =>
          /\ turn.sent = turn.answered + 1
          /\ Len(chat_history) - turn.base = 2 * (turn.sent - 1)

\* A turn that made three completion calls and two tool calls, and whose
\* third completion call failed.
C18_Witness ==
    /\ pc = "returned"
    /\ ret.kind = "Err"
    /\ turn.sent = 3 /\ turn.answered = 2 /\ turn.invoked = 2
    /\ Len(chat_history) - turn.base = 4

\* One definition per listed tool, in listing order, a missing description
\* being the empty string.
ExpectedDefs(l) ==
    [i \in 1..Len(l) |->
        [name |-> l[i].name,
         description |->
            IF l[i].description.some THEN l[i].description.v ELSE "",
         parameters |-> l[i].input_schema]]

\* C19: once list_tools has answered, tooldefs is one definition per listed
\* tool, in listing order, with the listed name and schema and "" for a
\* missing description, and stays so; every completion request of every turn
\* carries that sequence.
C19_CatalogIsFixed ==
    /\ (pc \notin {"connect", "list_tools", "exit_err"}) =>
          /\ Len(tooldefs) = Len(listed)
          /\ \A i \in 1..Len(listed) : tooldefs[i] = ExpectedDefs(listed)[i]
          /\ toolset = {listed[i].name : i \in 1..Len(listed)}
    /\ (request # None) =>
          /\ Len(request.tools) = Len(listed)
          /\ \A i \in 1..Len(listed) :
                request.tools[i] = ExpectedDefs(listed)[i]

\* A request of a later turn carries both listed tools, the second of them
\* with the empty description it was listed without.
C19_Witness ==
    /\ pc = "await_completion"
    /\ turn.base >= 2
    /\ Len(listed) = 2
    /\ ~listed[2].description.some
    /\ request.tools[2].description = ""
    /\ request.tools[1].name = "list_rows"

====
